---- MODULE Spec2Model ----
(***************************************************************************)
(* A model of moosic's size-bounded disk cache (moosic/cache.py) and of    *)
(* the commit-on-complete staging that MusicQueuePlayable builds on it     *)
(* (moosic/moosic.py).                                                     *)
(*                                                                         *)
(* A cache key is identified with its digest path (_key_path is a fixed    *)
(* injection of keys into the cache directory).  A file is a record of its *)
(* content and its modification time; the directory `disk' and the index   *)
(* `files' are functions whose DOMAIN is the set of paths present.         *)
(***************************************************************************)
EXTENDS Integers, Sequences, FiniteSets, TLC

\* ------------------------------------------------------------------ bounds
MaxLen == 2        \* longest content written through one handle or stream
MaxBudget == 2     \* largest max_size tried
MaxTotal == 4      \* cap on the _total_size counter
MaxClock == 1      \* cap on the filesystem clock
MaxHandles == 1    \* write handles alive at once
MaxSessions == 2   \* staging sessions started in one run
MaxQueue == 1      \* longest queue of one MusicQueuePlayable
MaxSpecLen == 3    \* longest size string given to convert_size

Keys == {"a", "b"}
Bytes == {0}
Guilds == {"g1", "g2"}

VARIABLES
    constructed,   \* LRUDiskCache.__init__ has run
    disk,          \* the cache directory: path -> [content, mtime]
    files,         \* LRUDiskCache._files: path -> [size, created]
    total_size,    \* LRUDiskCache._total_size
    max_size,      \* LRUDiskCache.max_size
    handles,       \* live LRUDiskCacheFile objects: key -> [buf, open]
    clock,         \* filesystem time
    last,          \* outcome of the step just taken, when it was a cache call
    entries,       \* MusicQueuePlayable._entries, per guild: queued keys
    current,       \* MusicQueuePlayable._current, per guild
    pc,            \* where each guild's player is inside next_frame
    callee,        \* the session whose next_frame call is in flight, per guild
    event,         \* MusicQueuePlayable._event, per guild
    sess,          \* the staging sessions (FileProxyPlayable + tempfile) so far
    sz,            \* the size string handed to convert_size
    parsed         \* what convert_size(sz) returned or raised

playerVars == <<entries, current, pc, callee, event, sess>>
sizeVars == <<sz, parsed>>
vars == <<constructed, disk, files, total_size, max_size, handles, clock, last,
          entries, current, pc, callee, event, sess, sz, parsed>>

\* ----------------------------------------------------------------- helpers
Contents == UNION {[1..n -> Bytes] : n \in 0..MaxLen}

Remove(f, p) == [q \in (DOMAIN f) \ {p} |-> f[q]]

RECURSIVE SumSizes(_, _)
SumSizes(f, S) ==
    IF S = {} THEN 0
    ELSE LET p == CHOOSE q \in S : TRUE IN f[p].size + SumSizes(f, S \ {p})

RECURSIVE SeqSizes(_, _)
SeqSizes(f, s) ==
    IF s = <<>> THEN 0 ELSE f[Head(s)].size + SeqSizes(f, Tail(s))

Range(s) == {s[i] : i \in 1..Len(s)}

NoOutcome == [op |-> "none", key |-> "", result |-> "", data |-> <<>>,
              excess |-> 0, purged |-> <<>>, raised |-> FALSE]

Outcome(op, key, result, data, chk) ==
    [op |-> op, key |-> key, result |-> result, data |-> data,
     excess |-> chk.excess, purged |-> chk.purged, raised |-> chk.raised]

NoCheck == [excess |-> 0, purged |-> <<>>, raised |-> FALSE]

\* ------------------------------------------------------------ cache.py
\* The characters size strings are drawn from.
SizeChars == {"0", "1", "2", "3", "K", "M", "G", "x", "-"}

\* str.isdigit on one character.
Digits == {"0", "1", "2", "3"}

DigitVal(c) == CASE c = "0" -> 0 [] c = "1" -> 1 [] c = "2" -> 2 [] OTHER -> 3

Front(s) == SubSeq(s, 1, Len(s) - 1)

RECURSIVE DecValue(_)
DecValue(s) ==
    IF s = <<>> THEN 0 ELSE DecValue(Front(s)) * 10 + DigitVal(s[Len(s)])

\* Python integers are unbounded: a magnitude is kept as its base-1024
\* digits, least significant first (zero: the empty sequence).
RECURSIVE BigFromInt(_)
BigFromInt(n) ==
    IF n = 0 THEN <<>> ELSE <<n % 1024>> \o BigFromInt(n \div 1024)

\* A product that leaves the factor as it is.
Mul1024_Dropped(limbs) == limbs

\* sz * 1024.
Mul1024(limbs) == IF limbs = <<>> THEN <<>> ELSE <<0>> \o limbs

NotParsed == [done |-> FALSE, ok |-> FALSE, error |-> "", neg |-> FALSE, limbs |-> <<>>]

Raised(kind) == [done |-> TRUE, ok |-> FALSE, error |-> kind, neg |-> FALSE, limbs |-> <<>>]

Returned(neg, limbs) ==
    [done |-> TRUE, ok |-> TRUE, error |-> "", neg |-> neg /\ limbs # <<>>, limbs |-> limbs]

\* int(s) on a string of SizeChars: an optional sign and at least one digit,
\* ValueError otherwise.
PyInt(s) ==
    LET neg == s # <<>> /\ Head(s) = "-"
        body == IF neg THEN Tail(s) ELSE s
    IN IF body = <<>> \/ \E i \in 1..Len(body) : body[i] \notin Digits
       THEN Raised("ValueError")
       ELSE Returned(neg, BigFromInt(DecValue(body)))

\* convert_size: sz[-1] raises IndexError on the empty string; a last
\* character that is no digit is split off as the unit, and a unit other than
\* G, M, K leaves the number as it is.
convert_size(s) ==
    IF s = <<>> THEN Raised("IndexError")
    ELSE IF s[Len(s)] \notin Digits
    THEN LET r == PyInt(Front(s))
             ch == s[Len(s)]
         IN IF ~r.ok THEN r
            ELSE IF ch = "G" THEN Returned(r.neg, Mul1024(Mul1024(Mul1024(r.limbs))))
            ELSE IF ch = "M" THEN Returned(r.neg, Mul1024(Mul1024(r.limbs)))
            ELSE IF ch = "K" THEN Returned(r.neg, Mul1024(r.limbs))
            ELSE r
    ELSE PyInt(s)

\* One call of convert_size on the configured string.
ConvertSize ==
    /\ ~parsed.done
    /\ parsed' = convert_size(sz)
    /\ UNCHANGED <<constructed, disk, files, total_size, max_size, handles, clock,
                   last, entries, current, pc, callee, event, sess, sz>>

\* _scan_file that counts the file and forgets to index it.
ScanFile_NoIndex(d, f, t, path) ==
    [total |-> t + Len(d[path].content), files |-> f]

\* os.stat(path) followed by the two assignments of _scan_file.
ScanFile(d, f, t, path) ==
    [total |-> t + Len(d[path].content),
     files |-> [q \in (DOMAIN f) \cup {path} |->
                  IF q = path
                  THEN [size |-> Len(d[path].content), created |-> d[path].mtime]
                  ELSE f[q]]]

\* sorted(self._files.items(), key=created): every order of the index that is
\* non-decreasing in `created' (the order among equal keys is the dict's).
SortedOrders(f) ==
    LET n == Cardinality(DOMAIN f) IN
    {s \in [1..n -> DOMAIN f] :
        /\ \A i, j \in 1..n : i # j => s[i] # s[j]
        /\ \A i, j \in 1..n : i < j => f[s[i]].created <= f[s[j]].created}

\* The loop of _purge_bytes from position i: os.remove raises on a path that
\* is not on disk, which ends the pass.
RECURSIVE PurgeLoop(_, _, _, _, _, _)
PurgeLoop(d, f, order, i, amount, removed) ==
    IF i > Len(order)
    THEN [disk |-> d, purged |-> removed, raised |-> FALSE]
    ELSE IF order[i] \notin DOMAIN d
    THEN [disk |-> d, purged |-> removed, raised |-> TRUE]
    ELSE IF amount - f[order[i]].size <= 0
    THEN [disk |-> Remove(d, order[i]), purged |-> Append(removed, order[i]),
          raised |-> FALSE]
    ELSE PurgeLoop(Remove(d, order[i]), f, order, i + 1,
                   amount - f[order[i]].size, Append(removed, order[i]))

PurgeBytes(d, f, amount, order) ==
    PurgeLoop(d, f, order, 1, amount, <<>>)

\* _check: the result carries the excess the pass was run with (0: no pass).
Check(d, f, t, m, order) ==
    IF t > m
    THEN LET r == PurgeBytes(d, f, t - m, order) IN
         [disk |-> r.disk, purged |-> r.purged, raised |-> r.raised,
          excess |-> t - m]
    ELSE [disk |-> d, purged |-> <<>>, raised |-> FALSE, excess |-> 0]

\* _scan's walk over the directory.
RECURSIVE ScanAll(_, _, _, _)
ScanAll(d, f, t, S) ==
    IF S = {} THEN [total |-> t, files |-> f]
    ELSE LET p == CHOOSE q \in S : TRUE
             r == ScanFile(d, f, t, p)
         IN ScanAll(d, r.files, r.total, S \ {p})

has(key) == key \in DOMAIN files

\* LRUDiskCache.__init__: _scan, then _check.
Construct ==
    /\ ~constructed
    /\ constructed' = TRUE
    /\ LET r == ScanAll(disk, << >>, 0, DOMAIN disk) IN
       \E order \in SortedOrders(r.files) :
         LET c == Check(disk, r.files, r.total, max_size, order) IN
         /\ files' = r.files
         /\ total_size' = r.total
         /\ disk' = c.disk
         /\ last' = Outcome("init", "", IF c.raised THEN "OSError" ELSE "ok", <<>>, c)
    /\ UNCHANGED <<max_size, handles, clock>>

\* LRUDiskCache.put: LRUDiskCacheFile.__init__ opens the path with mode 'w',
\* which creates or truncates the file.
Put(key) ==
    /\ constructed
    /\ key \notin DOMAIN handles
    /\ Cardinality(DOMAIN handles) < MaxHandles
    /\ handles' = [k \in (DOMAIN handles) \cup {key} |->
                     IF k = key THEN [buf |-> <<>>, open |-> TRUE, fd |-> "own"]
                     ELSE handles[k]]
    /\ disk' = [p \in (DOMAIN disk) \cup {key} |->
                  IF p = key THEN [content |-> <<>>, mtime |-> clock] ELSE disk[p]]
    /\ last' = NoOutcome
    /\ UNCHANGED <<constructed, files, total_size, max_size, clock>>

\* handle.write(b), delegated to the file object by __getattr__: buffered.
Write(key, b) ==
    /\ key \in DOMAIN handles
    /\ handles[key].open
    /\ Len(handles[key].buf) < MaxLen
    /\ handles' = [handles EXCEPT ![key].buf = Append(@, b)]
    /\ last' = NoOutcome
    /\ UNCHANGED <<constructed, disk, files, total_size, max_size, clock>>

\* A close that drops the buffer instead of flushing it.
Flushed_Lost(file, buf, now) == file

\* What the file holds once a buffer written from offset 0 is flushed.
Flushed(file, buf, now) ==
    IF buf = <<>> THEN file
    ELSE [content |-> buf \o SubSeq(file.content, Len(buf) + 1, Len(file.content)),
          mtime |-> now]

\* self._file.close(): flushes the buffer when the file is open; what is
\* written to a file unlinked since the open is lost with it.
FileClose(d, h, key, now) ==
    IF h.open /\ h.fd # "unlinked" /\ key \in DOMAIN d
    THEN [d EXCEPT ![key] = Flushed(d[key], h.buf, now)]
    ELSE d

\* The open handles after os.remove of the paths in `removed': their file
\* objects keep the unlinked files.
Unlinked(h, removed) ==
    [k \in DOMAIN h |->
        IF k \in removed /\ h[k].open THEN [h[k] EXCEPT !.fd = "unlinked"] ELSE h[k]]

\* The open handles after shutil.copy onto the path of `key': the copy
\* truncates and rewrites the file a handle opened there.
Shared(h, key) ==
    [k \in DOMAIN h |->
        IF k = key /\ h[k].open /\ h[k].fd = "own"
        THEN [h[k] EXCEPT !.fd = "shared"] ELSE h[k]]

\* LRUDiskCacheFile.close: file.close(), parent._scan_file(path), parent._check().
Close(key) ==
    /\ key \in DOMAIN handles
    /\ LET d1 == FileClose(disk, handles[key], key, clock) IN
       /\ IF key \notin DOMAIN d1
          THEN \* os.stat raises
               /\ disk' = d1
               /\ last' = Outcome(IF handles[key].open THEN "close" ELSE "reclose",
                                  key, "OSError", handles[key].buf, NoCheck)
               /\ handles' = [handles EXCEPT ![key].buf = <<>>, ![key].open = FALSE]
               /\ UNCHANGED <<files, total_size>>
          ELSE LET r == ScanFile(d1, files, total_size, key) IN
               /\ r.total <= MaxTotal
               /\ \E order \in SortedOrders(r.files) :
                    LET c == Check(d1, r.files, r.total, max_size, order) IN
                    /\ files' = r.files
                    /\ total_size' = r.total
                    /\ disk' = c.disk
                    /\ last' = Outcome(IF handles[key].open THEN "close" ELSE "reclose",
                                       key, IF c.raised THEN "OSError" ELSE "ok",
                                       handles[key].buf, c)
                    /\ handles' = Unlinked([handles EXCEPT ![key].buf = <<>>,
                                                            ![key].open = FALSE],
                                           Range(c.purged))
    /\ UNCHANGED <<constructed, max_size, clock>>

\* The handle object is dropped: an open file is closed by the runtime, which
\* flushes it; LRUDiskCacheFile.close is not run.
Drop(key) ==
    /\ key \in DOMAIN handles
    /\ disk' = FileClose(disk, handles[key], key, clock)
    /\ handles' = Remove(handles, key)
    /\ last' = NoOutcome
    /\ UNCHANGED <<constructed, files, total_size, max_size, clock>>

\* shutil.copy(path, new_path); _scan_file(new_path); _check().
PutFromPathOn(key, src) ==
    LET d1 == [p \in (DOMAIN disk) \cup {key} |->
                 IF p = key THEN [content |-> src, mtime |-> clock] ELSE disk[p]]
        r == ScanFile(d1, files, total_size, key)
    IN /\ r.total <= MaxTotal
       /\ \E order \in SortedOrders(r.files) :
            LET c == Check(d1, r.files, r.total, max_size, order) IN
            /\ files' = r.files
            /\ total_size' = r.total
            /\ disk' = c.disk
            /\ last' = Outcome("put_from_path", key,
                               IF c.raised THEN "OSError" ELSE "ok", src, c)

\* put_from_path called with a file outside the cache directory.
PutFromPath(key, src) ==
    /\ constructed
    /\ PutFromPathOn(key, src)
    /\ handles' = Unlinked(Shared(handles, key), Range(last'.purged))
    /\ UNCHANGED <<constructed, max_size, clock>>

\* LRUDiskCache.delete.
Delete(key) ==
    /\ constructed
    /\ IF key \notin DOMAIN files
       THEN /\ last' = Outcome("delete", key, "KeyError", <<>>, NoCheck)
            /\ UNCHANGED <<disk, files, total_size>>
       ELSE /\ files' = Remove(files, key)
            /\ IF key \notin DOMAIN disk
               THEN /\ last' = Outcome("delete", key, "OSError", <<>>, NoCheck)
                    /\ UNCHANGED <<disk, total_size>>
               ELSE /\ disk' = Remove(disk, key)
                    /\ total_size' = total_size - files[key].size
                    /\ last' = Outcome("delete", key, "ok", <<>>, NoCheck)
    /\ handles' = Unlinked(handles, (DOMAIN disk) \ (DOMAIN disk'))
    /\ UNCHANGED <<constructed, max_size, clock>>

\* LRUDiskCache.get: open(path, 'r'), then the caller's read of the file.
get(key) ==
    IF key \in DOMAIN disk
    THEN [result |-> "ok", data |-> disk[key].content]
    ELSE [result |-> "IOError", data |-> <<>>]

\* Time passes on the filesystem clock.
Tick ==
    /\ clock < MaxClock
    /\ clock' = clock + 1
    /\ last' = NoOutcome
    /\ UNCHANGED <<constructed, disk, files, total_size, max_size, handles>>



\* ------------------------------------------------------------ moosic.py
\* The frames the encoder pipeline yields for an item, before end-of-stream.
Stream(key) == [i \in 1..(IF key = "a" THEN 1 ELSE MaxLen) |-> 0]

NoPlayable == [kind |-> "none", key |-> "", sid |-> 0, data |-> <<>>, pos |-> 0]

NoSession == [state |-> "free", key |-> "", staged |-> <<>>, fwd |-> <<>>,
              commits |-> 0, copied |-> <<>>, tf |-> FALSE]

Sessions == 1..MaxSessions

FreeSessions == {s \in Sessions : sess[s].state = "free"}

\* The session object is still referenced by a queue or by a call in flight.
Referenced(s) ==
    \E g \in Guilds :
        \/ current[g].kind = "session" /\ current[g].sid = s
        \/ pc[g] = "frame" /\ callee[g] = s

\* now_playing's retry: _get_next_playable pops the head; when the cache has
\* the key but get() raises, the except clause evaluates now_playing again.
RECURSIVE Resolve(_)
Resolve(q) ==
    IF q = <<>> THEN [found |-> FALSE, key |-> "", entries |-> <<>>]
    ELSE IF has(Head(q)) /\ get(Head(q)).result # "ok" THEN Resolve(Tail(q))
    ELSE [found |-> TRUE, key |-> Head(q), entries |-> Tail(q)]

\* MusicQueuePlayable.add.
Add(g, key) ==
    /\ constructed
    /\ pc[g] # "stopped"
    /\ Len(entries[g]) < MaxQueue
    /\ entries' = [entries EXCEPT ![g] = Append(@, key)]
    /\ event' = [event EXCEPT ![g] = IF @ = "none" THEN "none" ELSE "set"]
    /\ last' = NoOutcome
    /\ UNCHANGED <<constructed, disk, files, total_size, max_size, handles, clock,
                   current, pc, callee, sess>>

\* MusicQueuePlayable.shuffle.
Shuffle(g) ==
    /\ pc[g] # "stopped"
    /\ entries[g] # <<>>
    /\ \E q \in [1..Len(entries[g]) -> Keys] :
         /\ \E f \in [1..Len(q) -> 1..Len(q)] :
              /\ \A i, j \in 1..Len(q) : i # j => f[i] # f[j]
              /\ \A i \in 1..Len(q) : q[i] = entries[g][f[i]]
         /\ entries' = [entries EXCEPT ![g] = q]
    /\ last' = NoOutcome
    /\ UNCHANGED <<constructed, disk, files, total_size, max_size, handles, clock,
                   current, pc, callee, event, sess>>

\* A skip that runs the session's on_complete on its way out.
Skip_Commit(g) ==
    /\ pc[g] # "stopped"
    /\ current[g].kind # "none"
    /\ current' = [current EXCEPT ![g] = NoPlayable]
    /\ IF current[g].kind = "session"
       THEN /\ PutFromPathOn(current[g].key, sess[current[g].sid].staged)
            /\ sess' = [sess EXCEPT ![current[g].sid].commits = @ + 1,
                                    ![current[g].sid].copied = sess[current[g].sid].staged]
       ELSE /\ last' = NoOutcome
            /\ UNCHANGED <<disk, files, total_size, sess>>
    /\ UNCHANGED <<constructed, max_size, handles, clock, entries, pc, callee, event>>

\* MusicQueuePlayable.skip.
Skip(g) ==
    /\ pc[g] # "stopped"
    /\ current[g].kind # "none"
    /\ current' = [current EXCEPT ![g] = NoPlayable]
    /\ last' = NoOutcome
    /\ UNCHANGED <<constructed, disk, files, total_size, max_size, handles, clock,
                   entries, pc, callee, event, sess>>

\* A proxy that returns the frame without writing it to the tempfile.
ProxyFrame_NoStage(s, frame) ==
    [s EXCEPT !.fwd = Append(@, frame)]

\* What FileProxyPlayable.next_frame does with a frame of the piped item:
\* it writes the frame to the tempfile and returns it.
ProxyFrame(s, frame) ==
    [s EXCEPT !.staged = Append(@, frame), !.fwd = Append(@, frame)]

\* next_frame entered with a track current: the call into the playable.  A
\* cached file is read without yielding; a session waits for its producer.
CallFrame(g) ==
    /\ pc[g] = "idle"
    /\ current[g].kind # "none"
    /\ IF current[g].kind = "session"
       THEN /\ pc' = [pc EXCEPT ![g] = "frame"]
            /\ callee' = [callee EXCEPT ![g] = current[g].sid]
            /\ UNCHANGED current
       ELSE /\ current' = [current EXCEPT ![g] =
                             IF @.pos < Len(@.data)
                             THEN [@ EXCEPT !.pos = @ + 1] ELSE NoPlayable]
            /\ UNCHANGED <<pc, callee>>
    /\ last' = NoOutcome
    /\ UNCHANGED <<constructed, disk, files, total_size, max_size, handles, clock,
                   entries, event, sess>>

\* next_frame entered with no track current: now_playing runs
\* _get_next_playable (lines 111-139), or the player waits on a new Event.
StartNext(g) ==
    /\ constructed
    /\ pc[g] = "idle"
    /\ current[g].kind = "none"
    /\ LET r == Resolve(entries[g]) IN
       /\ entries' = [entries EXCEPT ![g] = r.entries]
       /\ IF ~r.found
          THEN /\ pc' = [pc EXCEPT ![g] = "wait"]
               /\ event' = [event EXCEPT ![g] = "unset"]
               /\ UNCHANGED <<current, sess>>
          ELSE /\ pc' = [pc EXCEPT ![g] = "announce"]
               /\ UNCHANGED event
               /\ IF has(r.key)
                  THEN /\ current' = [current EXCEPT ![g] =
                                        [kind |-> "cached", key |-> r.key, sid |-> 0,
                                         data |-> get(r.key).data, pos |-> 0]]
                       /\ UNCHANGED sess
                  ELSE /\ FreeSessions # {}
                       /\ LET s == CHOOSE x \in FreeSessions :
                                       \A y \in FreeSessions : x <= y IN
                          /\ sess' = [sess EXCEPT ![s] =
                                        [NoSession EXCEPT !.state = "live",
                                                          !.key = r.key, !.tf = TRUE]]
                          /\ current' = [current EXCEPT ![g] =
                                           [kind |-> "session", key |-> r.key,
                                            sid |-> s, data |-> <<>>, pos |-> 0]]
    /\ last' = NoOutcome
    /\ UNCHANGED <<constructed, disk, files, total_size, max_size, handles, clock,
                   callee>>

\* _on_play has returned and now_playing returns self._current, which a skip
\* may have cleared meanwhile.
Announced(g) ==
    /\ pc[g] = "announce"
    /\ IF current[g].kind = "none"
       THEN /\ pc' = [pc EXCEPT ![g] = "wait"]
            /\ event' = [event EXCEPT ![g] = "unset"]
       ELSE /\ pc' = [pc EXCEPT ![g] = "idle"]
            /\ UNCHANGED event
    /\ last' = NoOutcome
    /\ UNCHANGED <<constructed, disk, files, total_size, max_size, handles, clock,
                   entries, current, callee, sess>>

\* self._event.wait() returns once add has set the event.
Woken(g) ==
    /\ pc[g] = "wait"
    /\ event[g] = "set"
    /\ pc' = [pc EXCEPT ![g] = "idle"]
    /\ event' = [event EXCEPT ![g] = "none"]
    /\ last' = NoOutcome
    /\ UNCHANGED <<constructed, disk, files, total_size, max_size, handles, clock,
                   entries, current, callee, sess>>

\* The producer yields a frame to the session's call in flight.
Frame(g) ==
    /\ pc[g] = "frame"
    /\ LET s == callee[g] IN
       /\ Len(sess[s].fwd) < Len(Stream(sess[s].key))
       /\ sess' = [sess EXCEPT ![s] =
                     ProxyFrame(@, Stream(@.key)[Len(@.fwd) + 1])]
    /\ pc' = [pc EXCEPT ![g] = "idle"]
    /\ callee' = [callee EXCEPT ![g] = 0]
    /\ last' = NoOutcome
    /\ UNCHANGED <<constructed, disk, files, total_size, max_size, handles, clock,
                   entries, current, event>>

\* A commit whose eviction pass also sweeps the staging files of the other
\* sessions.
EndOfStream_Sweep(g) ==
    /\ pc[g] = "frame"
    /\ LET s == callee[g] IN
       /\ Len(sess[s].fwd) = Len(Stream(sess[s].key))
       /\ PutFromPathOn(sess[s].key, sess[s].staged)
       /\ sess' = [x \in Sessions |->
                     IF x = s
                     THEN [sess[s] EXCEPT !.commits = @ + 1, !.copied = sess[s].staged,
                                          !.state = "done", !.tf = FALSE]
                     ELSE IF last'.purged # <<>>
                     THEN [sess[x] EXCEPT !.tf = FALSE]
                     ELSE sess[x]]
       /\ pc' = [pc EXCEPT ![g] = "idle"]
       /\ current' = [current EXCEPT ![g] = NoPlayable]
    /\ callee' = [callee EXCEPT ![g] = 0]
    /\ UNCHANGED <<constructed, max_size, handles, clock, entries, event>>

\* The producer signals end-of-stream: FileProxyPlayable flushes the tempfile,
\* calls on_complete (commit: put_from_path(id, tf.name)) and closes the
\* tempfile, which deletes it; next_frame then clears _current.  An OSError
\* out of put_from_path leaves the call before the close and ends the player.
EndOfStream(g) ==
    /\ pc[g] = "frame"
    /\ LET s == callee[g] IN
       /\ Len(sess[s].fwd) = Len(Stream(sess[s].key))
       /\ PutFromPathOn(sess[s].key, sess[s].staged)
       /\ IF last'.result = "OSError"
          THEN /\ sess' = [sess EXCEPT ![s].commits = @ + 1,
                                       ![s].copied = sess[s].staged,
                                       ![s].state = "failed"]
               /\ pc' = [pc EXCEPT ![g] = "stopped"]
               /\ UNCHANGED current
          ELSE /\ sess' = [sess EXCEPT ![s].commits = @ + 1,
                                       ![s].copied = sess[s].staged,
                                       ![s].state = "done",
                                       ![s].tf = FALSE]
               /\ pc' = [pc EXCEPT ![g] = "idle"]
               /\ current' = [current EXCEPT ![g] = NoPlayable]
    /\ callee' = [callee EXCEPT ![g] = 0]
    /\ UNCHANGED <<constructed, max_size, handles, clock, entries, event>>

\* The producer fails: the exception leaves next_frame and ends the player.
FrameError(g) ==
    /\ pc[g] = "frame"
    /\ pc' = [pc EXCEPT ![g] = "stopped"]
    /\ callee' = [callee EXCEPT ![g] = 0]
    /\ last' = NoOutcome
    /\ UNCHANGED <<constructed, disk, files, total_size, max_size, handles, clock,
                   entries, current, event, sess>>

\* cmd_leave: player.disconnect() ends play(), cmd_join deletes the queue.
Disconnect(g) ==
    /\ constructed
    /\ pc[g] # "stopped"
    /\ pc' = [pc EXCEPT ![g] = "stopped"]
    /\ current' = [current EXCEPT ![g] = NoPlayable]
    /\ callee' = [callee EXCEPT ![g] = 0]
    /\ entries' = [entries EXCEPT ![g] = <<>>]
    /\ event' = [event EXCEPT ![g] = "none"]
    /\ last' = NoOutcome
    /\ UNCHANGED <<constructed, disk, files, total_size, max_size, handles, clock,
                   sess>>

\* Teardown of a session nothing references any more: the runtime finalizes
\* its NamedTemporaryFile, which closes and so deletes the staging file.
Finalize(s) ==
    /\ sess[s].state \in {"live", "failed"}
    /\ sess[s].tf
    /\ ~Referenced(s)
    /\ sess' = [sess EXCEPT ![s].tf = FALSE,
                            ![s].state = IF @ = "live" THEN "torn" ELSE @]
    /\ last' = NoOutcome
    /\ UNCHANGED <<constructed, disk, files, total_size, max_size, handles, clock,
                   entries, current, pc, callee, event>>

\* ------------------------------------------------------------------ claims
\* Sum of the sizes on disk of the indexed paths (a path without a file: 0).
RECURSIVE DiskSum(_)
DiskSum(S) ==
    IF S = {} THEN 0
    ELSE LET p == CHOOSE q \in S : TRUE IN
         (IF p \in DOMAIN disk THEN Len(disk[p].content) ELSE 0) + DiskSum(S \ {p})

\* C1: after every put release, put_from_path and delete, _total_size equals
\* the sum of the on-disk sizes of the indexed entries.
C1_TotalIsIndexedSum ==
    last.op \in {"close", "put_from_path", "delete"}
        => total_size = DiskSum(DOMAIN files)

\* C2: after a mutating operation whose eviction check has completed,
\* _total_size <= max_size.
C2_WithinBudget ==
    (last.op \in {"init", "close", "put_from_path", "delete"} /\ last.result = "ok")
        => total_size <= max_size

C4_CompleteCommitsOnce ==
    /\ \A s \in Sessions :
          sess[s].state \in {"done", "failed"} =>
              /\ sess[s].commits = 1
              /\ sess[s].copied = sess[s].fwd
              /\ sess[s].fwd = Stream(sess[s].key)
    /\ (last.op = "put_from_path" /\ last.key \in DOMAIN disk)
          => disk[last.key].content = last.data

\* C4 witness: a two-frame stream played to its end and committed.
C4_Witness ==
    \E s \in Sessions :
        /\ sess[s].state = "done"
        /\ Len(sess[s].copied) > 1
        /\ last.op = "put_from_path"
        /\ last.key = sess[s].key
        /\ get(last.key).data = sess[s].fwd

\* C5: an eviction pass run with excess > 0 removes exactly the shortest
\* prefix of the index in creation order whose sizes sum to at least excess.
C5_ShortestOldestPrefix ==
    last.excess > 0 =>
        LET n == Len(last.purged) IN
        /\ \A p \in Range(last.purged), q \in (DOMAIN files) \ Range(last.purged) :
              files[q].created >= files[p].created
        /\ SeqSizes(files, last.purged) >= last.excess
        /\ n > 0
        /\ SeqSizes(files, SubSeq(last.purged, 1, n - 1)) < last.excess

\* C6: has(key) is false right after delete(key) succeeds and right after the
\* entry of key has been evicted.
C6_HasFalseAfterRemoval ==
    /\ (last.op = "delete" /\ last.result = "ok") => ~has(last.key)
    /\ \A p \in Range(last.purged) : ~has(p)

\* C7: has(key) is true right after a successful put release and right after
\* a successful put_from_path.
C7_HasAfterPut ==
    (last.op \in {"close", "put_from_path"} /\ last.result = "ok") => has(last.key)

\* C7 witness: a release that wrote data, ran an eviction pass and returned.
C7_Witness ==
    /\ last.op = "close"
    /\ last.result = "ok"
    /\ last.data # <<>>
    /\ last.excess > 0
    /\ has(last.key)

\* C8: every indexed entry has its file on disk, so get opens whenever has
\* is true.
C8_IndexedFilesExist ==
    constructed =>
        \A key \in Keys : has(key) => (key \in DOMAIN disk /\ get(key).result = "ok")

\* C9 as claimed: put(key), writing B, released; then get(key) yields B.
\* It is stated for releases that found the counter equal to the indexed
\* sizes and every indexed file in place, so that no earlier pass is involved.
C9_RoundTrip ==
    (/\ last.op = "close" /\ last.result = "ok" /\ handles[last.key].fd = "own"
     /\ total_size = SumSizes(files, DOMAIN files)
     /\ \A p \in (DOMAIN files) \ Range(last.purged) : p \in DOMAIN disk)
        => get(last.key) = [result |-> "ok", data |-> last.data]

\* C9 amended: the round trip holds unless the release's own eviction pass
\* removed the file of key; it always holds when no pass ran.
C9_RoundTripUnlessEvicted ==
    (last.op = "close" /\ last.result = "ok" /\ handles[last.key].fd = "own")
        => /\ last.key \notin Range(last.purged)
                => get(last.key) = [result |-> "ok", data |-> last.data]
           /\ total_size <= max_size => last.purged = <<>>

\* C9 witness: a release that evicted an older entry and kept what it wrote.
C9_Witness ==
    /\ last.op = "close"
    /\ last.result = "ok"
    /\ handles[last.key].fd = "own"
    /\ last.data # <<>>
    /\ last.purged # <<>>
    /\ get(last.key) = [result |-> "ok", data |-> last.data]

\* C10: get and delete of a key absent from the index fail with NotFound and
\* leave the index and _total_size as they were.
C10_AbsentIsNotFound ==
    /\ constructed => \A key \in Keys : ~has(key) => get(key).result = "NotFound"
    /\ (last.op = "delete" /\ last.result \notin {"ok", "OSError"})
          => last.result = "NotFound"

\* C11: put_from_path on a key that has an entry leaves one entry for the key,
\* with the new size, and moves _total_size by exactly new size - old size
\* (the value the eviction check is then run with).
C11_OverwriteDelta ==
    [][(last'.op = "put_from_path" /\ last'.key \in DOMAIN files) =>
          /\ last'.key \in DOMAIN files'
          /\ files'[last'.key].size = Len(last'.data)
          /\ total_size' = total_size + Len(last'.data) - files[last'.key].size]_vars

\* C12: when next_frame takes the head of a non-empty queue and that key is
\* not retrievable from the cache (not indexed, or indexed with get failing),
\* the item becomes the current track, played through a fresh staging session.
C12_MissPlaysFromProducer ==
    [][\A g \in Guilds :
          (pc[g] = "idle" /\ pc'[g] \in {"announce", "wait"} /\ entries[g] # <<>>
           /\ (~has(Head(entries[g])) \/ get(Head(entries[g])).result # "ok"))
          => /\ current'[g].kind = "session"
             /\ current'[g].key = Head(entries[g])
             /\ sess[current'[g].sid].state = "free"
             /\ sess'[current'[g].sid].state = "live"
             /\ sess'[current'[g].sid].staged = <<>>]_vars

\* The base-1024 digits of n * 1024^k, least significant first.
RECURSIVE Scaled(_, _)
Scaled(n, k) ==
    IF n = 0 THEN <<>>
    ELSE IF k > 0 THEN <<0>> \o Scaled(n, k - 1)
    ELSE <<n % 1024>> \o Scaled(n \div 1024, 0)

AllDigits(s) == s # <<>> /\ \A i \in 1..Len(s) : s[i] \in Digits

\* An integer literal: digits, with or without a minus sign in front.
Numeric(s) == AllDigits(s) \/ (s # <<>> /\ Head(s) = "-" /\ AllDigits(Tail(s)))

\* The part of the string convert_size reads as the number.
Prefix(s) == IF s # <<>> /\ s[Len(s)] \notin Digits THEN Front(s) ELSE s

UnitPower(c) == CASE c = "K" -> 1 [] c = "M" -> 2 [] c = "G" -> 3 [] OTHER -> 0

\* C13: convert_size maps digits n followed by K, M, G to n*1024, n*1024^2,
\* n*1024^3, maps plain digits to their value ("2M" -> 2097152, "100" -> 100,
\* "3G" -> 3221225472 = 3*1024^3), and fails when the prefix is not numeric.
C13_SizeSpecParsed ==
    parsed.done =>
        /\ (sz # <<>> /\ sz[Len(sz)] \in {"K", "M", "G"} /\ AllDigits(Front(sz)))
              => /\ parsed.ok /\ ~parsed.neg
                 /\ parsed.limbs = Scaled(DecValue(Front(sz)), UnitPower(sz[Len(sz)]))
        /\ AllDigits(sz)
              => parsed.ok /\ ~parsed.neg /\ parsed.limbs = Scaled(DecValue(sz), 0)
        /\ ~Numeric(Prefix(sz)) => ~parsed.ok /\ parsed.error # ""
        /\ sz = <<"2", "M">> => parsed.limbs = <<0, 0, 2>>
        /\ sz = <<"1", "0", "0">> => parsed.limbs = <<100>>
        /\ sz = <<"3", "G">> => parsed.limbs = <<0, 0, 0, 3>>

\* C13 witness: "3G" parsed to 3 * 1024^3.
C13_Witness ==
    /\ parsed.done
    /\ sz = <<"3", "G">>
    /\ parsed.ok
    /\ parsed.limbs = <<0, 0, 0, 3>>

\* C14: when a deletion fails during an eviction pass the pass goes on with
\* the remaining entries: it ends with the freed bytes at or above the excess,
\* or with no indexed file left to delete.
C14_FailedDeletionContinues ==
    last.raised =>
        \/ SeqSizes(files, last.purged) >= last.excess
        \/ \A p \in DOMAIN files : p \notin DOMAIN disk

\* C15: the release step of a write handle runs exactly once: a handle goes
\* away only after its release, and a repeated close changes nothing.
C15_ReleasedExactlyOnce ==
    [][/\ \A k \in (DOMAIN handles) \ (DOMAIN handles') : ~handles[k].open
       /\ last'.op = "reclose" =>
             files' = files /\ total_size' = total_size /\ disk' = disk]_vars

\* C16: once two sessions for one key, both started while has(key) was
\* false, have both committed, the index holds one entry for the key and
\* _total_size counts the size of each indexed entry once.
C16_ConcurrentCommitsCountOnce ==
    \A s, o \in Sessions :
        (/\ s # o
         /\ sess[s].state = "done" /\ sess[o].state = "done"
         /\ sess[s].key = sess[o].key
         /\ last.op = "put_from_path" /\ last.key = sess[s].key)
        => /\ has(sess[s].key)
           /\ total_size = SumSizes(files, DOMAIN files)

\* The bytes promoted into the cache so far, over all sessions.
RECURSIVE Promoted(_)
Promoted(S) ==
    IF S = {} THEN 0
    ELSE LET s == CHOOSE x \in S : TRUE IN
         sess[s].commits * Len(sess[s].copied) + Promoted(S \ {s})

\* C17: a staging file is out of the index until promotion: whatever passes
\* other sessions' commits run, the staging file of a session in flight stays
\* in place with the frames forwarded so far, the index holds only keys that
\* were promoted, passes delete indexed paths only, and _total_size counts
\* promoted bytes only.
C17_StagingInvisible ==
    /\ \A s \in Sessions :
          sess[s].state = "live" => sess[s].tf /\ sess[s].staged = sess[s].fwd
    /\ \A k \in DOMAIN files :
          \E s \in Sessions : sess[s].key = k /\ sess[s].commits > 0
    /\ \A p \in Range(last.purged) : p \in DOMAIN files
    /\ total_size = Promoted(Sessions)

\* C17 witness: another session's commit has just run a pass that deleted a
\* file while a session is in flight with frames staged.
C17_Witness ==
    \E s \in Sessions :
        /\ sess[s].state = "live"
        /\ sess[s].staged # <<>>
        /\ sess[s].tf
        /\ last.op = "put_from_path"
        /\ last.purged # <<>>

\* C18: every eviction pass run by a put release or a put_from_path finds
\* the files it deletes, so the call ends without a filesystem error.
C18_PassesFindTheirFiles ==
    last.op \in {"close", "put_from_path"} => ~last.raised /\ last.result = "ok"

\* C19: next_frame waits on its event, with no add since, only while the
\* queue is empty.
C19_WaitsOnlyWhenEmpty ==
    \A g \in Guilds : (pc[g] = "wait" /\ event[g] = "unset") => entries[g] = <<>>

\* next_frame of g has returned a frame of item k.
FramesReturned(g, k) ==
    /\ current[g].key = k
    /\ \/ current[g].kind = "session" /\ sess[current[g].sid].fwd # <<>>
       \/ current[g].kind = "cached" /\ current[g].pos > 0

\* The track taken from the queue of g was skipped before its first frame.
SkippedEarly(g) ==
    /\ pc[g] \in {"announce", "idle", "frame"}
    /\ current[g].kind = "none"
    /\ entries[g] = <<>>

\* C20: an item added while next_frame waits on an empty queue wakes the
\* player, and under fair scheduling a frame of it is eventually returned,
\* unless it is skipped (or the player is stopped, or no staging session is
\* left to start).
C20_AddWakesAndPlays ==
    \A g \in Guilds, k \in Keys :
        (pc[g] = "wait" /\ event[g] = "set" /\ entries[g] = <<k>>)
            ~> \/ FramesReturned(g, k)
               \/ SkippedEarly(g)
               \/ pc[g] = "stopped"
               \/ FreeSessions = {}

\* ---------------------------------------------------------- specifications
\* The directory found at start-up: files left by earlier runs.
InitFiles == {[content |-> [i \in 1..n |-> 0], mtime |-> 0] : n \in 1..MaxLen}

Init ==
    /\ constructed = FALSE
    /\ \E S \in SUBSET Keys : disk \in [S -> InitFiles]
    /\ files = << >>
    /\ total_size = 0
    /\ max_size \in 1..MaxBudget
    /\ handles = << >>
    /\ clock = 0
    /\ last = NoOutcome
    /\ entries = [g \in Guilds |-> <<>>]
    /\ current = [g \in Guilds |-> NoPlayable]
    /\ pc = [g \in Guilds |-> "idle"]
    /\ callee = [g \in Guilds |-> 0]
    /\ event = [g \in Guilds |-> "none"]
    /\ sess = [s \in Sessions |-> NoSession]
    /\ sz = <<>>
    /\ parsed = NotParsed

\* The size strings tried: every string of at most MaxSpecLen characters.
InitSize ==
    /\ constructed = FALSE
    /\ disk = << >>
    /\ files = << >>
    /\ total_size = 0
    /\ max_size = 1
    /\ handles = << >>
    /\ clock = 0
    /\ last = NoOutcome
    /\ entries = [g \in Guilds |-> <<>>]
    /\ current = [g \in Guilds |-> NoPlayable]
    /\ pc = [g \in Guilds |-> "idle"]
    /\ callee = [g \in Guilds |-> 0]
    /\ event = [g \in Guilds |-> "none"]
    /\ sess = [s \in Sessions |-> NoSession]
    /\ sz \in UNION {[1..n -> SizeChars] : n \in 0..MaxSpecLen}
    /\ parsed = NotParsed

NextSize == ConvertSize

SpecSize == InitSize /\ [][NextSize]_vars

\* The cache used through its own interface.
Next ==
    \/ Construct /\ UNCHANGED <<playerVars, sizeVars>>
    \/ Tick /\ UNCHANGED <<playerVars, sizeVars>>
    \/ \E key \in Keys : Put(key) /\ UNCHANGED <<playerVars, sizeVars>>
    \/ \E key \in Keys, b \in Bytes : Write(key, b) /\ UNCHANGED <<playerVars, sizeVars>>
    \/ \E key \in Keys : Close(key) /\ UNCHANGED <<playerVars, sizeVars>>
    \/ \E key \in Keys : Drop(key) /\ UNCHANGED <<playerVars, sizeVars>>
    \/ \E key \in Keys, src \in Contents : PutFromPath(key, src) /\ UNCHANGED <<playerVars, sizeVars>>
    \/ \E key \in Keys : Delete(key) /\ UNCHANGED <<playerVars, sizeVars>>

Spec == Init /\ [][Next]_vars

\* The plugin: the cache is used only by the players of the guilds.
NextPlayer ==
    \/ Construct /\ UNCHANGED <<playerVars, sizeVars>>
    \/ Tick /\ UNCHANGED <<playerVars, sizeVars>>
    \/ \E g \in Guilds, key \in Keys : Add(g, key) /\ UNCHANGED sizeVars
    \/ \E g \in Guilds : Shuffle(g) /\ UNCHANGED sizeVars
    \/ \E g \in Guilds : Skip(g) /\ UNCHANGED sizeVars
    \/ \E g \in Guilds : CallFrame(g) /\ UNCHANGED sizeVars
    \/ \E g \in Guilds : StartNext(g) /\ UNCHANGED sizeVars
    \/ \E g \in Guilds : Announced(g) /\ UNCHANGED sizeVars
    \/ \E g \in Guilds : Woken(g) /\ UNCHANGED sizeVars
    \/ \E g \in Guilds : Frame(g) /\ UNCHANGED sizeVars
    \/ \E g \in Guilds : EndOfStream(g) /\ UNCHANGED sizeVars
    \/ \E g \in Guilds : FrameError(g) /\ UNCHANGED sizeVars
    \/ \E g \in Guilds : Disconnect(g) /\ UNCHANGED sizeVars
    \/ \E s \in Sessions : Finalize(s) /\ UNCHANGED sizeVars

\* The plugin starts on an empty cache directory.
InitPlayer == Init /\ disk = << >>

SpecPlayer == InitPlayer /\ [][NextPlayer]_vars

\* The steps the scheduler owes a player: its own next_frame and the
\* producer its call waits for.
PlayerStep(g) ==
    /\ \/ Woken(g)
       \/ StartNext(g)
       \/ Announced(g)
       \/ CallFrame(g)
       \/ Frame(g)
       \/ EndOfStream(g)
    /\ UNCHANGED sizeVars

Fairness == \A g \in Guilds : WF_vars(PlayerStep(g))

SpecPlayerFair == InitPlayer /\ [][NextPlayer]_vars /\ Fairness

====
